---- MODULE Spec2Model ----
(***************************************************************************)
(* NHS medicines scraper: the run orchestration of NHSMedicinesScraper     *)
(* (scraper.ts), the output store (utils.ts) and the run options           *)
(* (config.ts).  Strings are sequences of one-character strings, so that   *)
(* the file-name derivation is computed as the code computes it.           *)
(***************************************************************************)
EXTENDS Integers, Sequences, FiniteSets, TLC

(* ---------------------------------------------------------------------- *)
(* Bounds of the model                                                     *)
(* ---------------------------------------------------------------------- *)
NumSlugs == 2            \* medicines on the index page
MaxQueued == 2           \* tasks one run selects, at most
MaxParallelTabs == 2     \* largest raw parallelTabs value tried
MaxRetryAttempts == 2    \* largest RETRY_ATTEMPTS value tried
MaxEntries == 2          \* items of a metadata.json found at startup, at most
MaxElements == 4         \* element children of <main> on a page, at most
MaxPieces == 5           \* pieces a page title is put together from, at most
MaxHrefs == 3            \* catalog links on the index page, at most

Digits == <<"1", "2", "3", "4", "5", "6", "7", "8", "9">>

Slug(i) == <<"m", Digits[i]>>
Slugs == {Slug(i) : i \in 1..NumSlugs}

\* display names a landing page can yield (LandingData.name)
Names == {<<"a", "!", "?", "b">>, <<"!">>}

AlphaNum == {"a", "b", "m"} \cup {Digits[i] : i \in 1..9}

Min(a, b) == IF a < b THEN a ELSE b
Max(a, b) == IF a > b THEN a ELSE b

Range(s) == {s[i] : i \in 1..Len(s)}

RECURSIVE FilterSeq(_, _)
\* Array.prototype.filter with the predicate given as the set it accepts
FilterSeq(s, keep) ==
  IF s = <<>> THEN <<>>
  ELSE IF Head(s) \in keep THEN <<Head(s)>> \o FilterSeq(Tail(s), keep)
       ELSE FilterSeq(Tail(s), keep)

\* Array.prototype.slice(0, n) for n > 0
SliceFrom0(s, n) == SubSeq(s, 1, Min(n, Len(s)))

(* ---------------------------------------------------------------------- *)
(* toMedicineFileName                                                      *)
(* ---------------------------------------------------------------------- *)
RECURSIVE ReplaceNonAlnumRuns(_)
\* name.replace(/[^a-zA-Z0-9]+/g, '-')
ReplaceNonAlnumRuns(s) ==
  IF s = <<>> THEN <<>>
  ELSE IF Head(s) \in AlphaNum THEN <<Head(s)>> \o ReplaceNonAlnumRuns(Tail(s))
  ELSE IF Len(s) > 1 /\ s[2] \notin AlphaNum THEN ReplaceNonAlnumRuns(Tail(s))
  ELSE <<"-">> \o ReplaceNonAlnumRuns(Tail(s))

RECURSIVE TrimLeadingDashes(_)
TrimLeadingDashes(s) ==
  IF s # <<>> /\ Head(s) = "-" THEN TrimLeadingDashes(Tail(s)) ELSE s

RECURSIVE TrimTrailingDashes(_)
TrimTrailingDashes(s) ==
  IF s # <<>> /\ s[Len(s)] = "-"
  THEN TrimTrailingDashes(SubSeq(s, 1, Len(s) - 1)) ELSE s

\* .replace(/^-+|-+$/g, '')
TrimDashes(s) == TrimTrailingDashes(TrimLeadingDashes(s))

\* medicine.name.replace(...).replace(...) || medicine.slug
toMedicineFileName(medicine) ==
  LET cleaned == TrimDashes(ReplaceNonAlnumRuns(medicine.name))
  IN IF cleaned # <<>> THEN cleaned ELSE medicine.slug

\* path.relative(outputDir, path.join(medicinesDir, name + '.json')) with '/'
RelativeFilePath(medicine) ==
  <<"medicines", "/">> \o toMedicineFileName(medicine) \o <<".json">>

Medicine(slug, name) == [slug |-> slug, name |-> name]

(* ---------------------------------------------------------------------- *)
(* Pure functions of the orchestrator                                      *)
(* ---------------------------------------------------------------------- *)
Task(slug) == [slug |-> slug]

NoSlugOption == [given |-> FALSE, value |-> <<>>]
SlugOption(s) == [given |-> TRUE, value |-> s]

\* JavaScript truthiness of `targetSlug` (undefined and '' are falsy)
Truthy(targetSlug) == targetSlug.given /\ targetSlug.value # <<>>

\* Math.max(1, options.parallelTabs ?? appConfig.parallelTabs)
resolveParallelTabs(rawParallelTabs) == Max(1, rawParallelTabs)

\* selectTasks with `targetLimit >= 0` for `targetLimit > 0`
selectTasksZeroLimit(all, targetSlug, targetLimit) ==
  LET filtered ==
        IF Truthy(targetSlug)
        THEN FilterSeq(all, {t \in Range(all) : t.slug = targetSlug.value})
        ELSE all
  IN IF targetLimit >= 0 THEN SubSeq(filtered, 1, Min(targetLimit, Len(filtered)))
     ELSE filtered

selectTasks(all, targetSlug, targetLimit) ==
  LET filtered ==
        IF Truthy(targetSlug)
        THEN FilterSeq(all, {t \in Range(all) : t.slug = targetSlug.value})
        ELSE all
  IN IF targetLimit > 0 THEN SliceFrom0(filtered, targetLimit) ELSE filtered

\* getCachedSlugs without the access() check
getCachedSlugsNoAccess(disk, md) == {md[k].slug : k \in 1..Len(md)}

\* the for loop of getCachedSlugs; `disk` is the artifact store, a function
\* from the paths that exist to their content
getCachedSlugs(disk, md) ==
  {md[k].slug : k \in {j \in 1..Len(md) : md[j].medicineFilePath \in DOMAIN disk}}

RECURSIVE CountSkipped(_, _)
\* the `skipped += 1` of the filter callback
CountSkipped(tasks, cachedSlugs) ==
  IF tasks = <<>> THEN 0
  ELSE (IF Head(tasks).slug \in cachedSlugs THEN 1 ELSE 0)
       + CountSkipped(Tail(tasks), cachedSlugs)

applyCachePolicy(tasks, disk, md, hardRefresh) ==
  IF hardRefresh THEN [tasksToRun |-> tasks, skipped |-> 0]
  ELSE LET cachedSlugs == getCachedSlugs(disk, md)
       IN [tasksToRun |-> FilterSeq(tasks, {t \in Range(tasks) : t.slug \notin cachedSlugs}),
           skipped |-> CountSkipped(tasks, cachedSlugs)]

\* metadata.findIndex((item) => item.slug === slug); 0 stands for -1
findIndex(md, slug) ==
  IF \E k \in 1..Len(md) : md[k].slug = slug
  THEN CHOOSE k \in 1..Len(md) :
         md[k].slug = slug /\ \A j \in 1..(k - 1) : md[j].slug # slug
  ELSE 0

\* upsertMetadata that pushes whether or not the slug is there
upsertMetadataPush(md, slug, medicineName, medicineFilePath) ==
  Append(md, [slug |-> slug, medicineName |-> medicineName,
              medicineFilePath |-> medicineFilePath])

upsertMetadata(md, slug, medicineName, medicineFilePath) ==
  LET existingIndex == findIndex(md, slug)
      nextEntry == [slug |-> slug, medicineName |-> medicineName,
                    medicineFilePath |-> medicineFilePath]
  IN IF existingIndex > 0 THEN [md EXCEPT ![existingIndex] = nextEntry]
     ELSE Append(md, nextEntry)

\* the concurrency with Math.max for Math.min
queueConcurrencyMax(parallelTabs, totalQueued) ==
  Max(parallelTabs, Max(1, totalQueued))

\* new PQueue({ concurrency: Math.min(parallelTabs, Math.max(1, totalQueued)) })
queueConcurrency(parallelTabs, totalQueued) ==
  Min(parallelTabs, Max(1, totalQueued))

\* a metadataWriteQueue as wide as the task queue
metadataWriteQueueWide == MaxParallelTabs

\* new PQueue({ concurrency: 1 }) of prepareOutputStore
metadataWriteQueueConcurrency == 1

\* retries without the `- 1`
retriesOffByOne(attempts) == Max(0, attempts)

\* retries: Math.max(0, this.appConfig.retryAttempts - 1)
retries(attempts) == Max(0, attempts - 1)

\* path.basename(medicineFilePath, '.json')
basename(filePath) ==
  LET slashes == {k \in 1..Len(filePath) : filePath[k] = "/"}
      start == IF slashes = {} THEN 1
               ELSE (CHOOSE k \in slashes : \A j \in slashes : j <= k) + 1
      base == SubSeq(filePath, start, Len(filePath))
  IN IF Len(base) > 1 /\ base[Len(base)] = ".json"
     THEN SubSeq(base, 1, Len(base) - 1) ELSE base

\* a property the JSON object does not have (reads as undefined)
Undefined == <<"undefined">>

\* JavaScript falsiness of a string property (undefined and '' are falsy)
Falsy(v) == v = Undefined \/ v = <<>>

\* what metadata.json can be: not there, there and unreadable, readable and
\* not JSON, JSON that is not an array, or a JSON array
FileKinds == {"absent", "unreadable", "invalid", "other", "list"}

\* loadMetadata whose readFile never finds the file
loadMetadataEmpty(kind, file) == <<>>

\* loadMetadata: `kind` says what readFile and JSON.parse make of
\* metadata.json and `file` is the array it holds when it holds one.  readFile
\* rejects, JSON.parse throws, items.map is not a function, or
\* path.basename(undefined, '.json') throws for an item with neither slug nor
\* medicineFilePath (a null or primitive item throws the same way): the catch
\* returns [].
loadMetadata(kind, file) ==
  IF kind # "list" THEN <<>>
  ELSE IF \E k \in 1..Len(file) :
            Falsy(file[k].slug) /\ file[k].medicineFilePath = Undefined
  THEN <<>>
  ELSE [k \in 1..Len(file) |->
          [file[k] EXCEPT !.slug = IF ~Falsy(file[k].slug) THEN file[k].slug
                                   ELSE basename(file[k].medicineFilePath)]]

(* ---------------------------------------------------------------------- *)
(* Text of the page: replace(/\s+/g, ' ').trim()                           *)
(* ---------------------------------------------------------------------- *)
Whitespace == {" ", "\n"}

RECURSIVE CollapseWhitespace(_)
\* .replace(/\s+/g, ' ')
CollapseWhitespace(s) ==
  IF s = <<>> THEN <<>>
  ELSE IF Head(s) \notin Whitespace THEN <<Head(s)>> \o CollapseWhitespace(Tail(s))
  ELSE IF Len(s) > 1 /\ s[2] \in Whitespace THEN CollapseWhitespace(Tail(s))
  ELSE <<" ">> \o CollapseWhitespace(Tail(s))

RECURSIVE TrimStart(_)
TrimStart(s) ==
  IF s # <<>> /\ Head(s) \in Whitespace THEN TrimStart(Tail(s)) ELSE s

RECURSIVE TrimEnd(_)
TrimEnd(s) ==
  IF s # <<>> /\ s[Len(s)] \in Whitespace
  THEN TrimEnd(SubSeq(s, 1, Len(s) - 1)) ELSE s

\* String.prototype.trim
Trim(s) == TrimEnd(TrimStart(s))

\* textContent?.replace(/\s+/g, ' ').trim() ?? ''
NormalizedText(s) == Trim(CollapseWhitespace(s))

RECURSIVE NonEmptyTexts(_)
\* texts.map(normalize).filter(Boolean)
NonEmptyTexts(texts) ==
  IF texts = <<>> THEN <<>>
  ELSE (IF NormalizedText(Head(texts)) # <<>> THEN <<NormalizedText(Head(texts))>>
        ELSE <<>>) \o NonEmptyTexts(Tail(texts))

(* ---------------------------------------------------------------------- *)
(* extractSections                                                         *)
(* An element is its tag, its textContent and, for a list, the texts of    *)
(* its li descendants; <main> is the sequence of its element children.     *)
(* ---------------------------------------------------------------------- *)
Element(tag, text, items) == [tag |-> tag, text |-> text, items |-> items]

NoMain == [given |-> FALSE, children |-> <<>>]
Main(children) == [given |-> TRUE, children |-> children]

\* the heading selector without h3
matchesH2Only(node) == node.tag = "h2"

\* node.matches('h2, h3')
matchesHeading(node) == node.tag \in {"h2", "h3"}

RECURSIVE walkSiblings(_, _, _)
\* the while loop of extractSections from the sibling at position j on
walkSiblings(children, j, section) ==
  IF j > Len(children) \/ matchesHeading(children[j]) THEN section
  ELSE LET node == children[j]
           withParagraph ==
             IF node.tag = "p" /\ NormalizedText(node.text) # <<>>
             THEN [section EXCEPT !.paragraphs = Append(@, NormalizedText(node.text))]
             ELSE section
           withBullets ==
             IF node.tag \in {"ul", "ol"}
             THEN [withParagraph EXCEPT !.bullets = @ \o NonEmptyTexts(node.items)]
             ELSE withParagraph
       IN walkSiblings(children, j + 1, withBullets)

extractSections(main) ==
  IF ~main.given THEN <<>>
  ELSE LET children == main.children
           headings == SelectSeq([k \in 1..Len(children) |-> k],
                                 LAMBDA k : matchesHeading(children[k]))
           mapped == [h \in 1..Len(headings) |->
                        walkSiblings(children, headings[h] + 1,
                                     [heading |-> NormalizedText(children[headings[h]].text),
                                      paragraphs |-> <<>>, bullets |-> <<>>])]
       IN SelectSeq(mapped, LAMBDA section : section.heading # <<>>)

(* ---------------------------------------------------------------------- *)
(* parseBrandNames                                                         *)
(* A title is a sequence of characters; a word stands for its letters and  *)
(* OtherBrandNames for the letters of "Other brand names:".                *)
(* ---------------------------------------------------------------------- *)
OtherBrandNames == "Other brand names:"

RECURSIVE SkipWhitespace(_, _)
\* the position after the whitespace run that starts at i (i itself if none)
SkipWhitespace(s, i) ==
  IF i <= Len(s) /\ s[i] \in Whitespace THEN SkipWhitespace(s, i + 1) ELSE i

\* /\s+-\s+Other brand names:\s+/i matched at position i: the position after
\* the match, 0 for no match
SeparatorEnd(s, i) ==
  LET dash == SkipWhitespace(s, i)
      phrase == SkipWhitespace(s, dash + 1)
      after == SkipWhitespace(s, phrase + 1)
  IN IF /\ dash > i /\ dash <= Len(s) /\ s[dash] = "-"
        /\ phrase > dash + 1 /\ phrase <= Len(s) /\ s[phrase] = OtherBrandNames
        /\ after > phrase + 1
     THEN after ELSE 0

RECURSIVE splitOnSeparator(_)
\* cleaned.split(/\s+-\s+Other brand names:\s+/i)
splitOnSeparator(s) ==
  LET starts == {i \in 1..Len(s) : SeparatorEnd(s, i) > 0}
  IN IF starts = {} THEN <<s>>
     ELSE LET i == CHOOSE a \in starts : \A b \in starts : a <= b
          IN <<SubSeq(s, 1, i - 1)>>
               \o splitOnSeparator(SubSeq(s, SeparatorEnd(s, i), Len(s)))

RECURSIVE splitOnCommaOrSlash(_)
\* .split(/,|\//)
splitOnCommaOrSlash(s) ==
  LET cuts == {i \in 1..Len(s) : s[i] \in {",", "/"}}
  IN IF cuts = {} THEN <<s>>
     ELSE LET i == CHOOSE a \in cuts : \A b \in cuts : a <= b
          IN <<SubSeq(s, 1, i - 1)>> \o splitOnCommaOrSlash(SubSeq(s, i + 1, Len(s)))

\* .split(/,|\//).map((item) => item.trim()).filter(Boolean)
brandItems(s) ==
  LET items == splitOnCommaOrSlash(s)
  IN SelectSeq([k \in 1..Len(items) |-> Trim(items[k])], LAMBDA item : item # <<>>)

RECURSIVE uniqueInOrder(_)
\* [...new Set(brands)]
uniqueInOrder(s) ==
  IF s = <<>> THEN <<>>
  ELSE LET front == uniqueInOrder(SubSeq(s, 1, Len(s) - 1))
       IN IF s[Len(s)] \in Range(front) THEN front ELSE Append(front, s[Len(s)])

\* left.match(/^(.*?)\((.*?)\)$/): the position of the "(" that ends the
\* first group, 0 for no match.  The first group is lazy: it ends before the
\* first "(" from which the rest of the pattern can match.
bracketMatch(left) ==
  LET opens == {i \in 1..Len(left) : left[i] = "("}
  IN IF left # <<>> /\ left[Len(left)] = ")" /\ opens # {}
     THEN CHOOSE a \in opens : \A b \in opens : a <= b
     ELSE 0

parseBrandNames(t) ==
  LET cleaned == NormalizedText(t)
      parts == splitOnSeparator(cleaned)
      left == parts[1]
      fromRight == IF Len(parts) > 1 /\ parts[2] # <<>> THEN brandItems(parts[2])
                   ELSE <<>>
      open == bracketMatch(left)
  IN IF open = 0 THEN [name |-> left, brandNames |-> uniqueInOrder(fromRight)]
     ELSE [name |-> Trim(SubSeq(left, 1, open - 1)),
           brandNames |-> uniqueInOrder(
              fromRight \o brandItems(SubSeq(left, open + 1, Len(left) - 1)))]

(* ---------------------------------------------------------------------- *)
(* State                                                                   *)
(* ---------------------------------------------------------------------- *)
VARIABLES
  retryAttempts,       \* appConfig.retryAttempts
  files,               \* outputDir/medicines: path -> Medicine written there
  metadataFile,        \* outputDir/metadata.json: the list of entries its JSON holds
  metadataFileKind,    \* outputDir/metadata.json: absent, unreadable, ..., or a list
  mainContent,         \* the page under extraction: <main> and its element children
  sections,            \* promise of extractSections on that page
  title,               \* the page under extraction: text of `main h1`
  parsedTitle,         \* result of parseBrandNames on that title, once called
  hrefs,               \* the index page: href of each `main a[href*="/medicines/"]`
  indexTasks,          \* promise of scrapeIndexUrl on that index page
  questionsPage,       \* the questions page: <main> and its details and headings
  questions,           \* promise of scrapeQuestionsPage on that page
  pc,                  \* position of run()
  runNo,               \* "first" or "second" run on the output directory
  opts,                \* ResolvedRunOptions of this run
  allMedicines,        \* result of scrapeIndexFromContext (until selectTasks has used it)
  selected,            \* result of selectTasks
  tasksToRun,          \* result of applyCachePolicy
  skipped,             \* result of applyCachePolicy
  metadata,            \* outputStore.metadata (in memory)
  loaded,              \* history: outputStore.metadata as loaded at startup
  state,               \* ScrapeState
  concurrency,         \* concurrency of the PQueue of runTaskQueue
  queue,               \* tasks added to that PQueue and not yet started
  tk,                  \* per task: position, attempt counter, medicine, JSON being written
  gh,                  \* per task history: what the run did for it
  writeQueue,          \* outputStore.metadataWriteQueue: waiting persists
  summary,             \* the ScrapeSummary returned
  unhandledRejection,  \* a promise returned by queue.add rejected
  prev                 \* history: how the previous run ended

vars == <<retryAttempts, files, metadataFile, metadataFileKind, mainContent,
          sections, title, parsedTitle, hrefs, indexTasks, questionsPage,
          questions, pc, runNo, opts, allMedicines,
          selected, tasksToRun, skipped, metadata, loaded, state, concurrency,
          queue, tk, gh, writeQueue, summary, unhandledRejection, prev>>

disk == <<files, metadataFile, metadataFileKind>>
index == <<hrefs, indexTasks>>
faq == <<questionsPage, questions>>
page == <<mainContent, sections, title, parsedTitle, index, faq>>
locals == <<opts, allMedicines, selected, tasksToRun, skipped, metadata, loaded>>
pool == <<state, concurrency, queue, tk, gh, writeQueue>>

NoMedicine == Medicine(<<>>, <<>>)
NoSummary == [total |-> -1, succeeded |-> -1, failed |-> -1, skipped |-> -1]
NoOpts == [targetSlug |-> NoSlugOption, targetLimit |-> 0,
           parallelTabs |-> 1, hardRefresh |-> FALSE]
NoSections == [settled |-> FALSE, value |-> <<>>]
NoParsedTitle == [returned |-> FALSE, name |-> <<>>, brandNames |-> <<>>]
NoIndexTasks == [settled |-> FALSE, rejected |-> FALSE, value |-> <<>>]
NoQuestions == [settled |-> FALSE, value |-> <<>>]
NoPrev == [clean |-> FALSE, selected |-> <<>>, metadataFile |-> <<>>]

NewTask == [pc |-> "queued", attempt |-> 0, medicine |-> NoMedicine, json |-> <<>>,
            page |-> "none"]
NewHistory == [failedCount |-> 0, succeededCount |-> 0, persistCalls |-> 0,
               wroteArtifact |-> FALSE, upserted |-> FALSE, persisted |-> FALSE,
               failures |-> {}, rejected |-> 0, reports |-> <<>>, delays |-> {}]

\* the href lists an index page can hold, already reduced to their tasks:
\* distinct slugs in any order
Catalogs ==
  {c \in UNION {[1..n -> {Task(s) : s \in Slugs}] : n \in 0..NumSlugs} :
     \A i, j \in 1..Len(c) : i # j => c[i] # c[j]}

SlugOptions == {NoSlugOption, SlugOption(<<>>)} \cup {SlugOption(s) : s \in Slugs}
TargetLimits == -1..NumSlugs
RawParallelTabs == 0..MaxParallelTabs
ErrorKinds == {"Error", "TypeError"}

Tasks == DOMAIN tk
Writers == {i \in Tasks : tk[i].pc \in {"writeArtifact", "writeMetadata"}}
InFlight == {i \in Tasks : tk[i].pc \notin {"queued", "done"}}

FreshStore == [files |-> [q \in {} |-> NoMedicine], metadataFile |-> <<>>,
               metadataFileKind |-> "absent"]

\* the output directory after a persist of `m` that succeeded
Persisted(store, m) ==
  LET relativeFilePath == RelativeFilePath(m)
  IN [files |-> [q \in DOMAIN store.files \cup {relativeFilePath} |->
                   IF q = relativeFilePath THEN m ELSE store.files[q]],
      metadataFile |-> upsertMetadata(store.metadataFile, m.slug, m.name, relativeFilePath),
      metadataFileKind |-> "list"]

\* the output directory after the artifact files `gone` were removed from it
Without(store, gone) ==
  [store EXCEPT !.files = [q \in DOMAIN store.files \ gone |-> store.files[q]]]

\* output directories as earlier runs can have left them: fresh, or after
\* persists of the first one or two medicines, each artifact still there or
\* removed since
UsedStores ==
  {Persisted(FreshStore, Medicine(Slug(1), n)) : n \in Names}
    \cup {Persisted(Persisted(FreshStore, Medicine(Slug(1), <<"!">>)),
                    Medicine(Slug(2), <<"!">>))}

InitStores ==
  {FreshStore} \cup {Without(st, gone) : st \in UsedStores,
                     gone \in {{}, {RelativeFilePath(Medicine(Slug(1), <<"!">>))}}}

\* no page is under extraction
NoIndex ==
  /\ hrefs = <<>>
  /\ indexTasks = NoIndexTasks

NoQuestionsPage ==
  /\ questionsPage = NoMain
  /\ questions = NoQuestions

NoPage ==
  /\ mainContent = NoMain
  /\ sections = NoSections
  /\ title = <<>>
  /\ parsedTitle = NoParsedTitle
  /\ NoIndex
  /\ NoQuestionsPage

\* the state of the scraper before run() is called
InitRun(attempts, stores) ==
  /\ retryAttempts \in attempts
  /\ \E st \in stores : /\ files = st.files
                         /\ metadataFile = st.metadataFile
                         /\ metadataFileKind = st.metadataFileKind
  /\ pc = "idle"
  /\ runNo = "first"
  /\ opts = NoOpts
  /\ allMedicines = <<>>
  /\ selected = <<>>
  /\ tasksToRun = <<>>
  /\ skipped = 0
  /\ metadata = <<>>
  /\ loaded = <<>>
  /\ state = [succeeded |-> 0, completed |-> 0, failed |-> 0]
  /\ concurrency = 1
  /\ queue = <<>>
  /\ tk = <<>>
  /\ gh = <<>>
  /\ writeQueue = <<>>
  /\ summary = NoSummary
  /\ unhandledRejection = FALSE
  /\ prev = NoPrev

InitWith(attempts, stores) == NoPage /\ InitRun(attempts, stores)

\* one run, on a fresh or once-used output directory
Init == InitWith(0..MaxRetryAttempts, InitStores)

\* two runs, starting on a fresh output directory
InitRerun == InitWith({2}, {FreshStore})

(* ---------------------------------------------------------------------- *)
(* run(): discovery, selection, output store, cache policy                 *)
(* ---------------------------------------------------------------------- *)
\* run() up to selectTasks: resolveRunOptions, getContext,
\* scrapeIndexFromContext, selectTasks
RunSelect(rawParallelTabs, targetSlug, targetLimit, hardRefresh, catalog) ==
  /\ pc = "idle"
  /\ opts' = [targetSlug |-> targetSlug, targetLimit |-> targetLimit,
              parallelTabs |-> resolveParallelTabs(rawParallelTabs),
              hardRefresh |-> hardRefresh]
  /\ allMedicines' = catalog
  /\ selected' = selectTasks(catalog, targetSlug, targetLimit)
  /\ Len(selected') <= MaxQueued
  /\ pc' = "selected"
  /\ UNCHANGED <<retryAttempts, page, disk, runNo, tasksToRun, skipped, metadata,
                 loaded, pool, summary, unhandledRejection, prev>>

\* getContext or scrapeIndexUrl rejects: run() rejects after its finally
RunDiscoveryFails ==
  /\ pc = "idle"
  /\ pc' = "threw"
  /\ UNCHANGED <<retryAttempts, page, disk, runNo, locals, pool, summary,
                 unhandledRejection, prev>>

\* prepareOutputStore: mkdir, loadMetadata, new PQueue({ concurrency: 1 }).
\* allMedicines, targetSlug and targetLimit are not read after selectTasks
\* and leave the state here.
PrepareOutputStore ==
  /\ pc = "selected"
  /\ metadata' = loadMetadata(metadataFileKind, metadataFile)
  /\ loaded' = metadata'
  /\ writeQueue' = <<>>
  /\ allMedicines' = <<>>
  /\ opts' = [opts EXCEPT !.targetSlug = NoSlugOption, !.targetLimit = 0]
  /\ pc' = "prepared"
  /\ UNCHANGED <<retryAttempts, page, disk, runNo, selected, tasksToRun, skipped,
                 state, concurrency, queue, tk, gh, summary,
                 unhandledRejection, prev>>

\* mkdir rejects: run() rejects
PrepareOutputStoreFails ==
  /\ pc = "selected"
  /\ pc' = "threw"
  /\ UNCHANGED <<retryAttempts, page, disk, runNo, locals, pool, summary,
                 unhandledRejection, prev>>

ApplyCachePolicy ==
  /\ pc = "prepared"
  /\ LET r == applyCachePolicy(selected, files, metadata, opts.hardRefresh)
     IN /\ tasksToRun' = r.tasksToRun
        /\ skipped' = r.skipped
  /\ pc' = "cached"
  /\ UNCHANGED <<retryAttempts, page, disk, runNo, opts, allMedicines, selected,
                 metadata, loaded, pool, summary, unhandledRejection, prev>>

\* runTaskQueue on a queue that starts the tasks added last first
RunTaskQueueLastFirst ==
  /\ pc = "cached"
  /\ LET totalQueued == Len(tasksToRun)
         c == queueConcurrency(opts.parallelTabs, totalQueued)
         started == Min(c, totalQueued)
     IN /\ concurrency' = c
        /\ tk' = [i \in 1..totalQueued |->
                    IF i > totalQueued - started THEN [NewTask EXCEPT !.pc = "newPage"]
                    ELSE NewTask]
        /\ queue' = [k \in 1..(totalQueued - started) |-> totalQueued - started + 1 - k]
        /\ gh' = [i \in 1..totalQueued |-> NewHistory]
  /\ state' = [succeeded |-> 0, completed |-> 0, failed |-> 0]
  /\ pc' = "running"
  /\ UNCHANGED <<retryAttempts, page, disk, runNo, locals, writeQueue, summary,
                 unhandledRejection, prev>>

\* the ScrapeState literal and runTaskQueue up to `await queue.onIdle()`:
\* every add starts its task at once while fewer than `concurrency` are pending
RunTaskQueue ==
  /\ pc = "cached"
  /\ LET totalQueued == Len(tasksToRun)
         c == queueConcurrency(opts.parallelTabs, totalQueued)
         started == Min(c, totalQueued)
     IN /\ concurrency' = c
        /\ tk' = [i \in 1..totalQueued |->
                    IF i <= started THEN [NewTask EXCEPT !.pc = "newPage"]
                    ELSE NewTask]
        /\ queue' = [k \in 1..(totalQueued - started) |-> started + k]
        /\ gh' = [i \in 1..totalQueued |-> NewHistory]
  /\ state' = [succeeded |-> 0, completed |-> 0, failed |-> 0]
  /\ pc' = "running"
  /\ UNCHANGED <<retryAttempts, page, disk, runNo, locals, writeQueue, summary,
                 unhandledRejection, prev>>

(* ---------------------------------------------------------------------- *)
(* The two PQueues                                                         *)
(* ---------------------------------------------------------------------- *)
\* PQueue of runTaskQueue after the promise of task i settled: the slot is
\* handed to the head of the queue
Settled(tkn, i) ==
  LET done == [tkn EXCEPT ![i].pc = "done"]
  IN IF queue # <<>> THEN [done EXCEPT ![Head(queue)].pc = "newPage"] ELSE done

QueueAfterSettle == IF queue # <<>> THEN Tail(queue) ELSE queue

\* metadataWriteQueue.add by task i: the function starts at once while fewer
\* than `concurrency` are pending, and waits in the queue otherwise
PersistAdded(tkn, i) ==
  IF Cardinality(Writers) < metadataWriteQueueConcurrency
  THEN [tkn EXCEPT ![i].pc = "writeArtifact"]
  ELSE [tkn EXCEPT ![i].pc = "persistQueued"]

WriteQueueAfterAdd(i) ==
  IF Cardinality(Writers) < metadataWriteQueueConcurrency
  THEN writeQueue ELSE Append(writeQueue, i)

\* metadataWriteQueue after the function of task i settled; i then runs the
\* finally of processMedicineTask and awaits page.close()
PersistSettled(tkn, i) ==
  LET closing == [tkn EXCEPT ![i].pc = "closing"]
  IN IF writeQueue # <<>>
     THEN [closing EXCEPT ![Head(writeQueue)].pc = "writeArtifact"]
     ELSE closing

WriteQueueAfterSettle == IF writeQueue # <<>> THEN Tail(writeQueue) ELSE writeQueue

\* retries used up by the failures of all tasks, not of the task itself
shouldRetryShared(kind, attemptNumber) ==
  kind = "Error" /\ attemptNumber + state.failed <= retries(retryAttempts)

\* pRetry: a failed attempt is followed by another one while retries are
\* left, unless the error is a TypeError that is not a network error (such as
\* the one `new URL(href, NHS_BASE_URL)` throws), which pRetry rethrows at once
shouldRetry(kind, attemptNumber) ==
  kind = "Error" /\ attemptNumber <= retries(retryAttempts)

\* RETRY_DELAY_MS, at its default
retryDelayMs == 750

RECURSIVE Power(_, _)
Power(base, n) == IF n = 0 THEN 1 ELSE base * Power(base, n - 1)

\* the delay with the defaults of pRetry: minTimeout 1000, factor 2, no
\* maxTimeout
retryDelayDefaults(attemptNumber) == 1000 * Power(2, attemptNumber - 1)

\* the delay pRetry waits after failed attempt `attemptNumber` with
\* minTimeout = maxTimeout = retryDelayMs, factor 1 and randomize false:
\* min(minTimeout * factor ** (attemptNumber - 1), maxTimeout)
retryDelay(attemptNumber) ==
  Min(retryDelayMs * Power(1, attemptNumber - 1), retryDelayMs)

\* what onFailedAttempt logs for failed attempt `attemptNumber`
FailedAttemptReport(attemptNumber) ==
  [attempt |-> attemptNumber,
   retriesLeft |-> retries(retryAttempts) - (attemptNumber - 1)]

(* ---------------------------------------------------------------------- *)
(* processMedicineTask                                                     *)
(* ---------------------------------------------------------------------- *)
\* context.newPage() resolves; retryScrapeMedicine makes its first attempt
NewPageOk(i) ==
  /\ pc = "running" /\ i \in Tasks /\ tk[i].pc = "newPage"
  /\ tk' = [tk EXCEPT ![i].pc = "scrape", ![i].attempt = 1, ![i].page = "open"]
  /\ UNCHANGED <<retryAttempts, page, disk, pc, runNo, locals, state, concurrency,
                 queue, gh, writeQueue, summary, unhandledRejection, prev>>

\* context.newPage() rejects, outside the try of processMedicineTask: the
\* promise returned by queue.add rejects and nothing handles it
NewPageFails(i) ==
  /\ pc = "running" /\ i \in Tasks /\ tk[i].pc = "newPage"
  /\ tk' = Settled(tk, i)
  /\ queue' = QueueAfterSettle
  /\ gh' = [gh EXCEPT ![i].failures = @ \cup {"newPage"}]
  /\ unhandledRejection' = TRUE
  /\ UNCHANGED <<retryAttempts, page, disk, pc, runNo, locals, state, concurrency,
                 writeQueue, summary, prev>>

\* an attempt of scrapeMedicine rejects: onFailedAttempt logs it, pRetry waits
\* the delay and makes the next attempt
ScrapeRetry(i, kind) ==
  /\ pc = "running" /\ i \in Tasks /\ tk[i].pc = "scrape"
  /\ shouldRetry(kind, tk[i].attempt)
  /\ tk' = [tk EXCEPT ![i].attempt = @ + 1]
  /\ gh' = [gh EXCEPT ![i].rejected = @ + 1,
                       ![i].reports = Append(@, FailedAttemptReport(tk[i].attempt)),
                       ![i].delays = @ \cup {retryDelay(tk[i].attempt)}]
  /\ UNCHANGED <<retryAttempts, page, disk, pc, runNo, locals, state, concurrency,
                 queue, writeQueue, summary, unhandledRejection, prev>>

\* an attempt rejects, onFailedAttempt logs it and pRetry rejects: catch and finally of
\* processMedicineTask up to `await page.close()`
ScrapeGivesUp(i, kind) ==
  /\ pc = "running" /\ i \in Tasks /\ tk[i].pc = "scrape"
  /\ ~shouldRetry(kind, tk[i].attempt)
  /\ state' = [state EXCEPT !.failed = @ + 1, !.completed = @ + 1]
  /\ tk' = [tk EXCEPT ![i].pc = "closing"]
  /\ gh' = [gh EXCEPT ![i].failedCount = @ + 1,
                       ![i].failures = @ \cup {IF kind = "TypeError" THEN "extractTypeError"
                                               ELSE "extract"},
                       ![i].rejected = @ + 1,
                       ![i].reports = Append(@, FailedAttemptReport(tk[i].attempt))]
  /\ UNCHANGED <<retryAttempts, page, disk, pc, runNo, locals, concurrency, queue,
                 writeQueue, summary, unhandledRejection, prev>>

\* an attempt resolves with the medicine: state.succeeded += 1 and
\* persistMedicine adds its function to the metadataWriteQueue
ScrapeOk(i, name) ==
  /\ pc = "running" /\ i \in Tasks /\ tk[i].pc = "scrape"
  /\ state' = [state EXCEPT !.succeeded = @ + 1]
  /\ tk' = PersistAdded([tk EXCEPT ![i].medicine = Medicine(tasksToRun[i].slug, name)], i)
  /\ writeQueue' = WriteQueueAfterAdd(i)
  /\ gh' = [gh EXCEPT ![i].succeededCount = @ + 1, ![i].persistCalls = @ + 1]
  /\ UNCHANGED <<retryAttempts, page, disk, pc, runNo, locals, concurrency, queue,
                 summary, unhandledRejection, prev>>

(* ---------------------------------------------------------------------- *)
(* persistMedicine: the function run by the metadataWriteQueue             *)
(* A writeFile that rejects is taken to leave its file as it was.          *)
(* ---------------------------------------------------------------------- *)
\* writeFile(medicineFilePath) resolves; upsertMetadata; JSON.stringify of
\* the index; writeFile(metadataPath) is called
WriteArtifactOk(i) ==
  /\ pc = "running" /\ i \in Tasks /\ tk[i].pc = "writeArtifact"
  /\ LET m == tk[i].medicine
         relativeFilePath == RelativeFilePath(m)
         next == upsertMetadata(metadata, tasksToRun[i].slug, m.name, relativeFilePath)
     IN /\ files' = [q \in DOMAIN files \cup {relativeFilePath} |->
                       IF q = relativeFilePath THEN m ELSE files[q]]
        /\ metadata' = next
        /\ tk' = [tk EXCEPT ![i].pc = "writeMetadata", ![i].json = next]
  /\ gh' = [gh EXCEPT ![i].wroteArtifact = TRUE, ![i].upserted = TRUE]
  /\ UNCHANGED <<retryAttempts, page, metadataFile, metadataFileKind, pc, runNo, opts, allMedicines,
                 selected, tasksToRun, skipped, loaded, state, concurrency,
                 queue, writeQueue, summary, unhandledRejection, prev>>

\* writeFile(medicineFilePath) rejects: persistMedicine rejects, catch and
\* finally of processMedicineTask
WriteArtifactFails(i) ==
  /\ pc = "running" /\ i \in Tasks /\ tk[i].pc = "writeArtifact"
  /\ tk' = PersistSettled(tk, i)
  /\ writeQueue' = WriteQueueAfterSettle
  /\ state' = [state EXCEPT !.failed = @ + 1, !.completed = @ + 1]
  /\ gh' = [gh EXCEPT ![i].failedCount = @ + 1, ![i].failures = @ \cup {"artifact"}]
  /\ UNCHANGED <<retryAttempts, page, disk, pc, runNo, locals, concurrency, queue,
                 summary, unhandledRejection, prev>>

\* writeFile(metadataPath) resolves: persistMedicine resolves, finally of
\* processMedicineTask
WriteMetadataOk(i) ==
  /\ pc = "running" /\ i \in Tasks /\ tk[i].pc = "writeMetadata"
  /\ metadataFile' = tk[i].json
  /\ metadataFileKind' = "list"
  /\ tk' = PersistSettled([tk EXCEPT ![i].json = <<>>], i)
  /\ writeQueue' = WriteQueueAfterSettle
  /\ state' = [state EXCEPT !.completed = @ + 1]
  /\ gh' = [gh EXCEPT ![i].persisted = TRUE]
  /\ UNCHANGED <<retryAttempts, page, files, pc, runNo, locals, concurrency, queue,
                 summary, unhandledRejection, prev>>

\* writeFile(metadataPath) rejects with persistMedicine called inside the
\* function pRetry runs: the rejection counts as a failed attempt
WriteMetadataFailsRetried(i) ==
  /\ pc = "running" /\ i \in Tasks /\ tk[i].pc = "writeMetadata"
  /\ tk' = [PersistSettled([tk EXCEPT ![i].json = <<>>], i) EXCEPT
              ![i].pc = IF shouldRetry("Error", tk[i].attempt) THEN "scrape" ELSE "closing",
              ![i].attempt = IF shouldRetry("Error", tk[i].attempt) THEN @ + 1 ELSE @]
  /\ writeQueue' = WriteQueueAfterSettle
  /\ state' = IF shouldRetry("Error", tk[i].attempt) THEN state
              ELSE [state EXCEPT !.failed = @ + 1, !.completed = @ + 1]
  /\ gh' = [gh EXCEPT ![i].failedCount = IF shouldRetry("Error", tk[i].attempt) THEN @ ELSE @ + 1,
                       ![i].failures = @ \cup {"metadata"}]
  /\ UNCHANGED <<retryAttempts, page, disk, pc, runNo, locals, concurrency, queue,
                 summary, unhandledRejection, prev>>

\* writeFile(metadataPath) rejects: persistMedicine rejects, catch and
\* finally of processMedicineTask
WriteMetadataFails(i) ==
  /\ pc = "running" /\ i \in Tasks /\ tk[i].pc = "writeMetadata"
  /\ tk' = PersistSettled([tk EXCEPT ![i].json = <<>>], i)
  /\ writeQueue' = WriteQueueAfterSettle
  /\ state' = [state EXCEPT !.failed = @ + 1, !.completed = @ + 1]
  /\ gh' = [gh EXCEPT ![i].failedCount = @ + 1, ![i].failures = @ \cup {"metadata"}]
  /\ UNCHANGED <<retryAttempts, page, disk, pc, runNo, locals, concurrency, queue,
                 summary, unhandledRejection, prev>>

\* the finally without `await page.close()`
ClosePageNever(i) ==
  /\ pc = "running" /\ i \in Tasks /\ tk[i].pc = "closing"
  /\ tk' = Settled(tk, i)
  /\ queue' = QueueAfterSettle
  /\ UNCHANGED <<retryAttempts, page, disk, pc, runNo, locals, state, concurrency,
                 gh, writeQueue, summary, unhandledRejection, prev>>

\* page.close() resolves: the promise of the task resolves
ClosePageOk(i) ==
  /\ pc = "running" /\ i \in Tasks /\ tk[i].pc = "closing"
  /\ tk' = Settled([tk EXCEPT ![i].page = "closed"], i)
  /\ queue' = QueueAfterSettle
  /\ UNCHANGED <<retryAttempts, page, disk, pc, runNo, locals, state, concurrency,
                 gh, writeQueue, summary, unhandledRejection, prev>>

\* page.close() rejects inside the finally: the promise of the task rejects
\* and nothing handles it; the page is closed or still open
ClosePageFails(i) ==
  /\ pc = "running" /\ i \in Tasks /\ tk[i].pc = "closing"
  /\ \E left \in {"open", "closed"} : tk' = Settled([tk EXCEPT ![i].page = left], i)
  /\ queue' = QueueAfterSettle
  /\ gh' = [gh EXCEPT ![i].failures = @ \cup {"close"}]
  /\ unhandledRejection' = TRUE
  /\ UNCHANGED <<retryAttempts, page, disk, pc, runNo, locals, state, concurrency,
                 writeQueue, summary, prev>>

(* ---------------------------------------------------------------------- *)
(* run(): summary, and the next run on the same output directory           *)
(* ---------------------------------------------------------------------- *)
\* queue.onEmpty() for queue.onIdle(): nothing waits, tasks may still run
QueueEmpty == queue = <<>>

\* queue.onIdle(): nothing waits and every promise of a task has settled
QueueIdle == queue = <<>> /\ \A i \in Tasks : tk[i].pc = "done"

\* queue.onIdle() resolves; the summary is built, the finally closes the
\* context (and with it every page still open) and the browser, run() returns
\* the summary
RunReturn ==
  /\ pc = "running" /\ QueueIdle
  /\ summary' = [total |-> Len(tasksToRun), succeeded |-> state.succeeded,
                 failed |-> state.failed, skipped |-> skipped]
  /\ tk' = [i \in Tasks |-> [tk[i] EXCEPT !.page = IF @ = "open" THEN "closed" ELSE @]]
  /\ pc' = "returned"
  /\ UNCHANGED <<retryAttempts, page, disk, runNo, locals, state, concurrency,
                 queue, gh, writeQueue, unhandledRejection, prev>>

\* context.close() or browserManager.close() rejects in the finally of run()
RunCloseFails ==
  /\ pc = "running" /\ QueueIdle
  /\ pc' = "threw"
  /\ UNCHANGED <<retryAttempts, page, disk, runNo, locals, pool, summary,
                 unhandledRejection, prev>>

\* the program is started again with the same configuration and output directory
NextRun ==
  /\ pc \in {"returned", "threw"} /\ runNo = "first"
  /\ prev' = [clean |-> (pc = "returned" /\ summary.failed = 0
                         /\ summary.succeeded = summary.total),
              selected |-> selected, metadataFile |-> metadataFile]
  /\ runNo' = "second"
  /\ pc' = "idle"
  /\ opts' = NoOpts
  /\ allMedicines' = <<>>
  /\ selected' = <<>>
  /\ tasksToRun' = <<>>
  /\ skipped' = 0
  /\ metadata' = <<>>
  /\ loaded' = <<>>
  /\ state' = [succeeded |-> 0, completed |-> 0, failed |-> 0]
  /\ concurrency' = 1
  /\ queue' = <<>>
  /\ tk' = <<>>
  /\ gh' = <<>>
  /\ writeQueue' = <<>>
  /\ summary' = NoSummary
  /\ unhandledRejection' = FALSE
  /\ UNCHANGED <<retryAttempts, page, disk>>

RunSelects(parallel, refresh) ==
  /\ pc = "idle"
  /\ \E p \in parallel, s \in SlugOptions, l \in TargetLimits,
        h \in refresh, c \in Catalogs : RunSelect(p, s, l, h, c)

\* what one run does
RunStep ==
  \/ RunDiscoveryFails
  \/ PrepareOutputStore
  \/ PrepareOutputStoreFails
  \/ ApplyCachePolicy
  \/ RunTaskQueue
  \/ \E i \in Tasks : NewPageOk(i)
  \/ \E i \in Tasks : NewPageFails(i)
  \/ \E i \in Tasks, k \in ErrorKinds : ScrapeRetry(i, k)
  \/ \E i \in Tasks, k \in ErrorKinds : ScrapeGivesUp(i, k)
  \/ \E i \in Tasks, n \in Names : ScrapeOk(i, n)
  \/ \E i \in Tasks : WriteArtifactOk(i)
  \/ \E i \in Tasks : WriteArtifactFails(i)
  \/ \E i \in Tasks : WriteMetadataOk(i)
  \/ \E i \in Tasks : WriteMetadataFails(i)
  \/ \E i \in Tasks : ClosePageOk(i)
  \/ \E i \in Tasks : ClosePageFails(i)
  \/ RunReturn
  \/ RunCloseFails

Next ==
  \/ RunSelects(RawParallelTabs, BOOLEAN)
  \/ RunStep

Spec == Init /\ [][Next]_vars

\* two successive runs, each with one tab, the first without --hard-refresh
NextRerun ==
  \/ RunSelects({1}, IF runNo = "first" THEN {FALSE} ELSE BOOLEAN)
  \/ RunStep
  \/ NextRun

SpecRerun == InitRerun /\ [][NextRerun]_vars

\* one run on a fresh output directory in which every call that is awaited
\* eventually resolves or rejects and every continuation is eventually run
InitLive == InitWith({MaxRetryAttempts}, {FreshStore})

SpecLive == InitLive /\ [][Next]_vars /\ WF_vars(Next)

(* ---------------------------------------------------------------------- *)
(* prepareOutputStore on any metadata.json                                 *)
(* ---------------------------------------------------------------------- *)
\* the items a JSON array found in metadata.json can hold: each property is
\* there or not, the slug may be the empty string
LoadItems ==
  {[slug |-> sl, medicineName |-> <<"!">>, medicineFilePath |-> f] :
     sl \in {Undefined, <<>>, Slug(1)},
     f \in {Undefined, RelativeFilePath(Medicine(Slug(1), <<"!">>)),
            RelativeFilePath(Medicine(Slug(2), <<"a", "!", "?", "b">>))}}
    \cup {[slug |-> Slug(1), medicineName |-> Undefined,
           medicineFilePath |-> RelativeFilePath(Medicine(Slug(1), <<"!">>))]}

\* output directories as anything can have left them: metadata.json of any
\* kind, the artifact of the first medicine there or not
LoadStores ==
  {[files |-> f, metadataFile |-> items, metadataFileKind |-> "list"] :
     f \in {FreshStore.files, Persisted(FreshStore, Medicine(Slug(1), <<"!">>)).files},
     items \in UNION {[1..n -> LoadItems] : n \in 0..MaxEntries}}
    \cup {[files |-> FreshStore.files, metadataFile |-> <<>>, metadataFileKind |-> k] :
            k \in FileKinds \ {"list"}}

InitLoad == InitWith({0}, LoadStores)

\* run() up to applyCachePolicy
NextLoad ==
  \/ RunSelects({1}, BOOLEAN)
  \/ PrepareOutputStore
  \/ PrepareOutputStoreFails
  \/ ApplyCachePolicy

SpecLoad == InitLoad /\ [][NextLoad]_vars

(* ---------------------------------------------------------------------- *)
(* extractSections on any page                                             *)
(* ---------------------------------------------------------------------- *)
\* the element children <main> can have: headings with text, with
\* whitespace only, paragraphs with and without text, lists with and without
\* empty items, and an element that is none of these
Elements ==
  {Element("h2", <<"A">>, <<>>),
   Element("h2", <<" ", "\n">>, <<>>),
   Element("h3", <<" ", "B", "\n">>, <<>>),
   Element("p", <<"x">>, <<>>),
   Element("p", <<>>, <<>>),
   Element("p", <<"\n", "x", " ", " ", "y", " ">>, <<>>),
   Element("ul", <<"y", "z">>, << <<"y">>, <<"z">> >>),
   Element("ul", <<" ", "z", " ">>, << <<>>, <<" ", "z", " ">> >>),
   Element("ol", <<"z">>, << <<"z">> >>),
   Element("div", <<"x">>, <<>>)}

Documents ==
  {NoMain} \cup {Main(c) : c \in UNION {[1..n -> Elements] : n \in 0..MaxElements}}

InitSections ==
  /\ InitRun({0}, {FreshStore})
  /\ mainContent \in Documents
  /\ sections = NoSections
  /\ title = <<>>
  /\ parsedTitle = NoParsedTitle
  /\ NoIndex
  /\ NoQuestionsPage

\* page.evaluate of extractSections resolves
ExtractSections ==
  /\ ~sections.settled
  /\ sections' = [settled |-> TRUE, value |-> extractSections(mainContent)]
  /\ UNCHANGED <<retryAttempts, disk, pc, runNo, locals, pool, summary,
                 unhandledRejection, prev, mainContent, title, parsedTitle, index, faq>>

NextSections == ExtractSections

SpecSections == InitSections /\ [][NextSections]_vars

(* ---------------------------------------------------------------------- *)
(* parseBrandNames on any title                                            *)
(* ---------------------------------------------------------------------- *)
\* what the text of `main h1` is put together from
Pieces ==
  {<<"P">>, <<"H">>, <<" ", "(">>, <<")">>, <<",", " ">>, <<"/">>,
   <<" ", "-", " ", OtherBrandNames, " ">>}

RECURSIVE Joined(_)
Joined(pieces) ==
  IF pieces = <<>> THEN <<>> ELSE Head(pieces) \o Joined(Tail(pieces))

Titles == {Joined(ps) : ps \in UNION {[1..n -> Pieces] : n \in 0..MaxPieces}}

InitTitle ==
  /\ InitRun({0}, {FreshStore})
  /\ mainContent = NoMain
  /\ sections = NoSections
  /\ title \in Titles
  /\ parsedTitle = NoParsedTitle
  /\ NoIndex
  /\ NoQuestionsPage

\* readLandingData: const [name, brandNames] = this.parseBrandNames(title)
ParseBrandNames ==
  /\ ~parsedTitle.returned
  /\ LET r == parseBrandNames(title)
     IN parsedTitle' = [returned |-> TRUE, name |-> r.name, brandNames |-> r.brandNames]
  /\ UNCHANGED <<retryAttempts, disk, pc, runNo, locals, pool, summary,
                 unhandledRejection, prev, mainContent, sections, title, index, faq>>

NextTitle == ParseBrandNames

SpecTitle == InitTitle /\ [][NextTitle]_vars

(* ---------------------------------------------------------------------- *)
(* scrapeIndexUrl on any list of hrefs                                     *)
(* ---------------------------------------------------------------------- *)
\* An href is a sequence of tokens: an origin, "/", a path segment, the start
\* of a query ("?q") or of a fragment ("#f").
NHS_BASE_URL == <<"https://www.nhs.uk">>

Origins == {"https://www.nhs.uk", "https://example.org"}

\* what the URL parser rejects: an unclosed IPv6 host
Unparsable == {"http://["}

RECURSIVE IndexOfAny(_, _, _)
\* the first position from k on of a token of `marks`, else Len(s) + 1
IndexOfAny(s, marks, k) ==
  IF k > Len(s) THEN Len(s) + 1
  ELSE IF s[k] \in marks THEN k
  ELSE IndexOfAny(s, marks, k + 1)

\* new URL(value, base), for a value the parser accepts
URL(value, base) ==
  LET absolute == Head(value) \in Origins
      rest == IF absolute THEN Tail(value) ELSE value
      pathEnd == IndexOfAny(rest, {"?q", "#f"}, 1)
      hashAt == IndexOfAny(rest, {"#f"}, 1)
      path == SubSeq(rest, 1, pathEnd - 1)
  IN [defined |-> TRUE,
      origin |-> IF absolute THEN Head(value) ELSE Head(base),
      pathname |-> IF path = <<>> \/ Head(path) # "/" THEN <<"/">> \o path ELSE path,
      search |-> SubSeq(rest, pathEnd, hashAt - 1),
      hash |-> SubSeq(rest, hashAt, Len(rest))]

\* new URL(value, base) throws TypeError: Invalid URL
URLThrows(value) == Head(value) \in Unparsable

\* url.toString()
toString(url) == <<url.origin>> \o url.pathname \o url.search \o url.hash

\* pathname.split('/').filter(Boolean)
pathParts(pathname) == SelectSeq(pathname, LAMBDA t : t # "/")

NoURL == [defined |-> FALSE, origin |-> "", pathname |-> <<>>,
          search |-> <<>>, hash |-> <<>>]

toIndexMedicineUrl(value) ==
  LET url == URL(value, NHS_BASE_URL)
      parts == pathParts(url.pathname)
  IN IF parts = <<>> \/ parts[1] # "medicines" \/ Len(parts) # 2 THEN NoURL
     ELSE [url EXCEPT !.pathname = <<"/", "medicines", "/", parts[2], "/">>,
                      !.search = <<>>,
                      !.hash = <<>>]

\* Map.prototype.set: a new key goes last, a known key keeps its position
mapSet(tasks, task) ==
  IF \E k \in 1..Len(tasks) : tasks[k].slug = task.slug
  THEN [k \in 1..Len(tasks) |->
          IF tasks[k].slug = task.slug THEN task ELSE tasks[k]]
  ELSE Append(tasks, task)

RECURSIVE indexLoop(_, _)
\* for (const href of hrefs) { ... tasks.set(slug, { slug, url }) }
indexLoop(hs, tasks) ==
  IF hs = <<>> THEN tasks
  ELSE LET url == toIndexMedicineUrl(Head(hs))
       IN IF ~url.defined THEN indexLoop(Tail(hs), tasks)
          ELSE indexLoop(Tail(hs),
                         mapSet(tasks, [slug |-> pathParts(url.pathname)[2],
                                        url |-> toString(url)]))

\* [...tasks.values()], when no href made the URL parser throw
scrapeIndexUrl(hs) == indexLoop(hs, <<>>)

\* the hrefs on the index page: they all contain "/medicines/", as the locator
\* selects on it: catalog links with and without trailing slash, query and
\* fragment, the index itself, a deeper page, another namespace, a link to
\* another site and one the URL parser rejects
Hrefs ==
  {<<"/", "medicines", "/", "a", "/">>,
   <<"/", "medicines", "/", "a", "?q", "#f">>,
   <<"https://www.nhs.uk", "/", "medicines", "/", "b", "/", "#f">>,
   <<"/", "medicines", "/">>,
   <<"/", "medicines", "/", "a", "/", "b", "/">>,
   <<"/", "conditions", "/", "medicines", "/", "b", "/">>,
   <<"https://example.org", "/", "medicines", "/", "b", "/">>,
   <<"http://[", "/", "medicines", "/", "a", "/">>}

HrefLists == UNION {[1..n -> Hrefs] : n \in 0..MaxHrefs}

InitIndex ==
  /\ InitRun({0}, {FreshStore})
  /\ mainContent = NoMain
  /\ sections = NoSections
  /\ title = <<>>
  /\ parsedTitle = NoParsedTitle
  /\ hrefs \in HrefLists
  /\ indexTasks = NoIndexTasks
  /\ NoQuestionsPage

\* scrapeIndexUrl resolves with the tasks
ScrapeIndexUrl ==
  /\ ~indexTasks.settled
  /\ \A k \in 1..Len(hrefs) : ~URLThrows(hrefs[k])
  /\ indexTasks' = [settled |-> TRUE, rejected |-> FALSE,
                    value |-> scrapeIndexUrl(hrefs)]
  /\ UNCHANGED <<retryAttempts, disk, pc, runNo, locals, pool, summary,
                 unhandledRejection, prev, mainContent, sections, title,
                 parsedTitle, hrefs, faq>>

\* toIndexMedicineUrl throws on an href: scrapeIndexUrl rejects
ScrapeIndexUrlThrows ==
  /\ ~indexTasks.settled
  /\ \E k \in 1..Len(hrefs) : URLThrows(hrefs[k])
  /\ indexTasks' = [settled |-> TRUE, rejected |-> TRUE, value |-> <<>>]
  /\ UNCHANGED <<retryAttempts, disk, pc, runNo, locals, pool, summary,
                 unhandledRejection, prev, mainContent, sections, title,
                 parsedTitle, hrefs, faq>>

NextIndex == ScrapeIndexUrl \/ ScrapeIndexUrlThrows

SpecIndex == InitIndex /\ [][NextIndex]_vars

(* ---------------------------------------------------------------------- *)
(* scrapeQuestionsPage on any questions page                               *)
(* An element of the questions page is its tag and its text (for details   *)
(* the text of its summary, empty without one), the texts of its p         *)
(* descendants and the texts of its li descendants. "More in" stands for   *)
(* the letters of that phrase.                                             *)
(* ---------------------------------------------------------------------- *)
QuestionElement(tag, text, paragraphs, items) ==
  [tag |-> tag, text |-> text, paragraphs |-> paragraphs, items |-> items]

RECURSIVE joinLines(_)
\* answerParts.join('\n')
joinLines(parts) ==
  IF parts = <<>> THEN <<>>
  ELSE IF Len(parts) = 1 THEN Head(parts)
  ELSE Head(parts) \o <<"\n">> \o joinLines(Tail(parts))

\* question.toLowerCase()
toLowerCase(s) ==
  [k \in 1..Len(s) |-> CASE s[k] = "More in" -> "more in"
                         [] s[k] = "A" -> "a"
                         [] s[k] = "Q" -> "q"
                         [] s[k] = "R" -> "r"
                         [] OTHER -> s[k]]

\* question.toLowerCase().startsWith('more in')
startsWithMoreIn(question) ==
  question # <<>> /\ Head(toLowerCase(question)) = "more in"

\* main.querySelectorAll('details') mapped to pairs and filtered
accordionQuestions(main) ==
  LET details == SelectSeq(main.children, LAMBDA node : node.tag = "details")
      mapped == [k \in 1..Len(details) |->
                   [question |-> NormalizedText(details[k].text),
                    answer |-> joinLines(NonEmptyTexts(details[k].paragraphs)
                                         \o NonEmptyTexts(details[k].items))]]
  IN SelectSeq(mapped, LAMBDA item : item.question # <<>> /\ item.answer # <<>>)

RECURSIVE walkAnswer(_, _, _)
\* the while loop of the heading fallback from the sibling at position j on
walkAnswer(children, j, answerParts) ==
  IF j > Len(children) \/ children[j].tag \in {"h2", "h3"} THEN answerParts
  ELSE LET node == children[j]
           withParagraph ==
             IF node.tag = "p" /\ NormalizedText(node.text) # <<>>
             THEN Append(answerParts, NormalizedText(node.text))
             ELSE answerParts
           withItems ==
             IF node.tag \in {"ul", "ol"}
             THEN withParagraph \o NonEmptyTexts(node.items)
             ELSE withParagraph
       IN walkAnswer(children, j + 1, withItems)

\* main.querySelectorAll('h2, h3') mapped to pairs and filtered
headingQuestions(main) ==
  LET children == main.children
      headings == SelectSeq([k \in 1..Len(children) |-> k],
                            LAMBDA k : children[k].tag \in {"h2", "h3"})
      mapped == [h \in 1..Len(headings) |->
                   [question |-> NormalizedText(children[headings[h]].text),
                    answer |-> joinLines(walkAnswer(children, headings[h] + 1, <<>>))]]
  IN SelectSeq(mapped, LAMBDA item : /\ item.question # <<>>
                                    /\ item.answer # <<>>
                                    /\ ~startsWithMoreIn(item.question))

\* the fallback taken only on a page without details elements
scrapeQuestionsPageNoDetails(main) ==
  IF ~main.given THEN <<>>
  ELSE IF \E k \in 1..Len(main.children) : main.children[k].tag = "details"
  THEN accordionQuestions(main)
  ELSE headingQuestions(main)

\* the page.evaluate callback of scrapeQuestionsPage
scrapeQuestionsPage(main) ==
  IF ~main.given THEN <<>>
  ELSE IF Len(accordionQuestions(main)) > 0 THEN accordionQuestions(main)
  ELSE headingQuestions(main)

\* what a questions page is made of: a details with summary, paragraph and
\* item, one without summary, one without body, headings (one that begins
\* with "More in", one that only contains it), a paragraph and a list
QuestionElements ==
  {QuestionElement("details", <<"Q">>, << <<"x">> >>, << <<"y">> >>),
   QuestionElement("details", <<>>, << <<"x">> >>, <<>>),
   QuestionElement("details", <<" ", "R", "\n">>, << <<" ">> >>, <<>>),
   QuestionElement("h2", <<"A">>, <<>>, <<>>),
   QuestionElement("h3", <<"More in", " ", "A">>, <<>>, <<>>),
   QuestionElement("h3", <<"A", " ", "more in">>, <<>>, <<>>),
   QuestionElement("p", <<"x">>, <<>>, <<>>),
   QuestionElement("ul", <<"y">>, <<>>, << <<"y">>, <<>> >>)}

QuestionPages ==
  {NoMain} \cup
  {Main(c) : c \in UNION {[1..n -> QuestionElements] : n \in 0..MaxElements}}

InitQuestions ==
  /\ InitRun({0}, {FreshStore})
  /\ mainContent = NoMain
  /\ sections = NoSections
  /\ title = <<>>
  /\ parsedTitle = NoParsedTitle
  /\ NoIndex
  /\ questionsPage \in QuestionPages
  /\ questions = NoQuestions

\* page.evaluate of scrapeQuestionsPage resolves
ScrapeQuestionsPage ==
  /\ ~questions.settled
  /\ questions' = [settled |-> TRUE, value |-> scrapeQuestionsPage(questionsPage)]
  /\ UNCHANGED <<retryAttempts, disk, pc, runNo, locals, pool, summary,
                 unhandledRejection, prev, mainContent, sections, title,
                 parsedTitle, index, questionsPage>>

NextQuestions == ScrapeQuestionsPage

SpecQuestions == InitQuestions /\ [][NextQuestions]_vars

TypeOK ==
  /\ pc \in {"idle", "selected", "prepared", "cached", "running", "returned", "threw"}
  /\ runNo \in {"first", "second"}
  /\ \A i \in Tasks : tk[i].pc \in {"queued", "newPage", "scrape", "persistQueued",
                                    "writeArtifact", "writeMetadata", "closing", "done"}

(* ====================================================================== *)
(* Properties                                                              *)
(* ====================================================================== *)
Terminal(i) == tk[i].pc \in {"closing", "done"}
SlugsOf(md) == {md[k].slug : k \in 1..Len(md)}
EntriesFor(md, slug) == {k \in 1..Len(md) : md[k].slug = slug}

\* C1: while the queue of runTaskQueue runs, the number of tasks whose
\* processMedicineTask has started and not finished is at most
\* min(p, max(1, n)) for the resolved parallelism p and the number n of queued
\* tasks, and that bound is at least 1.
C1_BoundedConcurrency ==
  pc \in {"running", "returned"} =>
    /\ Cardinality(InFlight) <= Min(opts.parallelTabs, Max(1, Len(tasksToRun)))
    /\ Min(opts.parallelTabs, Max(1, Len(tasksToRun))) >= 1

\* the bound binds: one tab, one task in flight, another one waiting
C1_Witness ==
  /\ pc = "running" /\ opts.parallelTabs = 1 /\ Len(tasksToRun) = 2
  /\ Cardinality(InFlight) = 1 /\ queue # <<>>

\* C2: at most one persistMedicine critical section (artifact write, upsert,
\* metadata.json rewrite) executes at any instant.
C2_SingleWriter == Cardinality(Writers) <= 1

\* two tasks finished extraction together: one writes, the other one waits
C2_Witness ==
  /\ pc = "running" /\ concurrency = 2
  /\ \E i, j \in Tasks : tk[i].pc = "writeMetadata" /\ tk[j].pc = "persistQueued"

\* C3: when run returns, metadata.json holds an entry for every task whose
\* persist completed during the run, and every entry loaded at startup is
\* still at its position, unchanged unless a task of the run upserted its slug.
C3_NoLostUpdate ==
  pc = "returned" =>
    /\ \A i \in Tasks : gh[i].persisted => tasksToRun[i].slug \in SlugsOf(metadataFile)
    /\ \A k \in 1..Len(loaded) :
         /\ k <= Len(metadataFile)
         /\ metadataFile[k].slug = loaded[k].slug
         /\ \/ metadataFile[k] = loaded[k]
            \/ \E i \in Tasks : gh[i].upserted /\ tasksToRun[i].slug = loaded[k].slug

\* two tasks ran side by side, both persisted, on top of a loaded index
C3_Witness ==
  /\ pc = "returned" /\ concurrency = 2 /\ loaded # <<>>
  /\ \A i \in Tasks : gh[i].persisted
  /\ Len(metadataFile) > Len(loaded)

C5_ExactlyRetryAttempts ==
  \A i \in Tasks :
    (Terminal(i) /\ gh[i].failures \cap {"extract", "extractTypeError"} # {}) =>
      /\ tk[i].attempt = retryAttempts
      /\ gh[i].failedCount = 1
      /\ ~gh[i].wroteArtifact

\* C5 as amended: a task whose scrapeMedicine fails on every attempt with an
\* error pRetry retries is attempted exactly max(1, retryAttempts) times, is
\* then counted as failed, and no artifact file is written for it.
C5_RetryBudgetExhaustion ==
  \A i \in Tasks :
    (Terminal(i) /\ "extract" \in gh[i].failures) =>
      /\ tk[i].attempt = Max(1, retryAttempts)
      /\ gh[i].failedCount = 1
      /\ ~gh[i].wroteArtifact

\* a task used up a budget of two attempts
C5_Witness ==
  /\ retryAttempts = 2
  /\ \E i \in Tasks : tk[i].pc = "done" /\ "extract" \in gh[i].failures /\ tk[i].attempt = 2

\* C6 as claimed: a failure raised while processing a task (opening its page,
\* extraction, persistence, closing the page) is caught in
\* processMedicineTask and counted in failed exactly once for that task, so
\* that no promise of the queue rejects.
C6_FailureIsolation ==
  /\ \A i \in Tasks : (tk[i].pc = "done" /\ gh[i].failures # {}) => gh[i].failedCount = 1
  /\ ~unhandledRejection

\* C7 as claimed: a task counted as failed has no artifact file written by the
\* run and no entry put into the index by the run.
C7_NoPartialRecord ==
  \A i \in Tasks : gh[i].failedCount > 0 => ~gh[i].wroteArtifact /\ ~gh[i].upserted

SecondRunReturned ==
  runNo = "second" /\ pc = "returned" /\ ~opts.hardRefresh /\ selected = prev.selected

\* C8 as claimed, in the case most favourable to it (the first run persisted
\* every task it queued): the second run with hardRefresh=false and the same
\* selection reports skipped == total and leaves metadata.json unchanged.
C8_SkippedEqualsTotal ==
  (SecondRunReturned /\ prev.clean) =>
    /\ summary.skipped = summary.total
    /\ metadataFile = prev.metadataFile

\* C8 as amended: after a first run that returned with failed == 0 and
\* succeeded == total, the second run with hardRefresh=false and the same
\* selection reports total == 0 and skipped == the number of selected tasks,
\* and leaves metadata.json unchanged.
C8_IdempotentRerun ==
  (SecondRunReturned /\ prev.clean) =>
    /\ summary.total = 0
    /\ summary.skipped = Len(selected)
    /\ metadataFile = prev.metadataFile

\* the second run skipped both medicines the first run had persisted
C8_Witness ==
  SecondRunReturned /\ prev.clean /\ Len(selected) = 2 /\ Len(metadataFile) = 2

\* the index loaded at startup has an entry with the slug of `t` whose
\* medicineFilePath exists on disk
Cached(t) ==
  \E k \in 1..Len(loaded) :
    loaded[k].slug = t.slug /\ loaded[k].medicineFilePath \in DOMAIN files

PositionIn(seq, t) == CHOOSE k \in 1..Len(seq) : seq[k] = t

\* C9: with hardRefresh every selected task is returned and skipped is 0;
\* without it a task is skipped iff the loaded index has an entry with its
\* slug whose file exists, skipped counts those tasks, and the others are
\* returned in their original order; only the existence of files is read.
C9_CachePolicy ==
  pc = "cached" =>
    IF opts.hardRefresh THEN tasksToRun = selected /\ skipped = 0
    ELSE /\ Range(tasksToRun) = {t \in Range(selected) : ~Cached(t)}
         /\ Len(tasksToRun) = Cardinality(Range(tasksToRun))
         /\ \A a, b \in 1..Len(tasksToRun) :
              a < b => PositionIn(selected, tasksToRun[a]) < PositionIn(selected, tasksToRun[b])
         /\ skipped = Cardinality({t \in Range(selected) : Cached(t)})

\* one task skipped, and one run although the index has an entry for it,
\* because the file of that entry is gone
C9_Witness ==
  /\ pc = "cached" /\ ~opts.hardRefresh /\ skipped = 1 /\ Len(tasksToRun) = 1
  /\ tasksToRun[1].slug \in SlugsOf(loaded)

TenTasks == [k \in 1..10 |-> Task(<<"t", Digits[1], IF k = 10 THEN "0" ELSE Digits[k]>>)]

\* the positions of allMedicines that pass the slug filter
Matching ==
  {k \in 1..Len(allMedicines) :
     Truthy(opts.targetSlug) => allMedicines[k].slug = opts.targetSlug.value}

C11_DrainBeforeSummary ==
  (pc = "returned" \/ summary # NoSummary) =>
    /\ queue = <<>>
    /\ InFlight = {}
    /\ Len(tk) = Len(tasksToRun)
    /\ \A i \in Tasks :
         /\ tk[i].pc = "done"
         /\ gh[i].persisted \/ gh[i].failedCount > 0 \/ gh[i].failures # {}

\* a summary over two tasks, one persisted and one failed, the second of
\* which had to wait for the only tab
C11_Witness ==
  /\ pc = "returned" /\ Len(tasksToRun) = 2 /\ concurrency = 1
  /\ summary.succeeded = 1 /\ summary.failed = 1
  /\ \E i \in Tasks : gh[i].persisted

\* C12: once the configuration is loaded, an invocation of run never raises:
\* whatever fails in discovery, in prepareOutputStore or in a task, run
\* completes by returning a summary.
C12_RunNeverRaises == pc # "threw"

\* metadata.json has an entry for task i whose medicineFilePath names an
\* existing artifact that holds the medicine extracted for i
IndexedArtifactHolds(i) ==
  \E k \in EntriesFor(metadataFile, tasksToRun[i].slug) :
    /\ metadataFile[k].medicineFilePath \in DOMAIN files
    /\ files[metadataFile[k].medicineFilePath] = tk[i].medicine

\* C13: after every successful persist of a run, and when the run has
\* returned, metadata.json has for every task persisted so far an entry with
\* its slug whose medicineFilePath names an existing artifact file that holds
\* the record extracted for that slug.
C13_IndexArtifactConsistency ==
  \A i \in Tasks : gh[i].persisted => IndexedArtifactHolds(i)

\* an item that has a medicineName and a medicineFilePath (its slug may be
\* missing: it is backfilled)
WellFormed(item) ==
  item.medicineName # Undefined /\ item.medicineFilePath # Undefined

\* an item loadMetadata can map: it has a slug, or a file path to take one from
Loadable(item) == ~Falsy(item.slug) \/ item.medicineFilePath # Undefined

\* `entry` is `item` with a missing slug backfilled from its artifact file name
Backfilled(entry, item) ==
  /\ entry.medicineName = item.medicineName
  /\ entry.medicineFilePath = item.medicineFilePath
  /\ IF ~Falsy(item.slug) THEN entry.slug = item.slug
     ELSE <<"medicines", "/">> \o entry.slug \o <<".json">> = item.medicineFilePath

\* the index is the file's items in file order, missing slugs backfilled
LoadedInFileOrder ==
  /\ Len(loaded) = Len(metadataFile)
  /\ \A k \in 1..Len(loaded) : Backfilled(loaded[k], metadataFile[k])

\* C14 as stated: prepareOutputStore never fails because of metadata.json;
\* it returns an empty index when the file is absent, unreadable, not valid
\* JSON or not a list of well-formed entries, and the entries in file order
\* with missing slugs backfilled from the artifact file name when it is valid.
C14_EmptyUnlessWellFormed ==
  /\ pc = "selected" => ENABLED PrepareOutputStore
  /\ pc = "prepared" =>
       IF /\ metadataFileKind = "list"
          /\ \A k \in 1..Len(metadataFile) : WellFormed(metadataFile[k])
       THEN LoadedInFileOrder
       ELSE loaded = <<>>

\* C14, amended: prepareOutputStore never fails because of metadata.json; it
\* returns an empty index when the file is absent, unreadable, not valid JSON,
\* not an array, or an array with an item that has neither a slug nor a
\* medicineFilePath; otherwise it loads every item in file order as it is,
\* well-formed or not, with a missing or empty slug backfilled from the
\* entry's artifact file name.
C14_LoadMetadata ==
  /\ pc = "selected" => ENABLED PrepareOutputStore
  /\ pc = "prepared" =>
       /\ metadata = loaded
       /\ IF /\ metadataFileKind = "list"
             /\ \A k \in 1..Len(metadataFile) : Loadable(metadataFile[k])
          THEN LoadedInFileOrder
          ELSE loaded = <<>>

\* a list of two items was loaded: the first had no slug and got the one of
\* its file name, the second has no medicineFilePath and was loaded as it is
C14_Witness ==
  /\ pc = "prepared" /\ metadataFileKind = "list" /\ Len(loaded) = 2
  /\ metadataFile[1].slug = Undefined /\ loaded[1].slug = <<"a", "-", "b">>
  /\ loaded[2].medicineFilePath = Undefined

\* the positions of the h2 and h3 children of <main>
HeadingPositions ==
  {k \in 1..Len(mainContent.children) : mainContent.children[k].tag \in {"h2", "h3"}}

\* those of them whose text is not empty
KeptHeadings ==
  {k \in HeadingPositions : NormalizedText(mainContent.children[k].text) # <<>>}

\* the siblings between the heading at k and the next h2/h3, or the end
SiblingsAfter(k) ==
  LET later == {j \in HeadingPositions : j > k}
      stop == IF later = {} THEN Len(mainContent.children) + 1
              ELSE CHOOSE j \in later : \A m \in later : j <= m
  IN SubSeq(mainContent.children, k + 1, stop - 1)

RECURSIVE ListItemTexts(_)
\* the texts of the li of the ul and ol among `nodes`, in document order
ListItemTexts(nodes) ==
  IF nodes = <<>> THEN <<>>
  ELSE (IF Head(nodes).tag \in {"ul", "ol"}
        THEN [k \in 1..Len(Head(nodes).items) |-> NormalizedText(Head(nodes).items[k])]
        ELSE <<>>) \o ListItemTexts(Tail(nodes))

\* the texts of the p among `nodes`, in document order
ParagraphTexts(nodes) ==
  LET ps == SelectSeq(nodes, LAMBDA node : node.tag = "p")
  IN [k \in 1..Len(ps) |-> NormalizedText(ps[k].text)]

NonEmpty(texts) == SelectSeq(texts, LAMBDA t : t # <<>>)

\* the section of the j-th kept heading is there, with the given content
SectionsAre(paragraphsOf(_), bulletsOf(_)) ==
  /\ Len(sections.value) = Cardinality(KeptHeadings)
  /\ \A k \in KeptHeadings :
       LET section == sections.value[Cardinality({m \in KeptHeadings : m <= k})]
       IN /\ section.heading = NormalizedText(mainContent.children[k].text)
          /\ section.paragraphs = paragraphsOf(SiblingsAfter(k))
          /\ section.bullets = bulletsOf(SiblingsAfter(k))

ExampleDocument ==
  Main(<<Element("h2", <<"A">>, <<>>), Element("p", <<"x">>, <<>>),
         Element("h2", <<"B">>, <<>>),
         Element("ul", <<"y", "z">>, << <<"y">>, <<"z">> >>)>>)

ExampleSections ==
  <<[heading |-> <<"A">>, paragraphs |-> << <<"x">> >>, bullets |-> <<>>],
    [heading |-> <<"B">>, paragraphs |-> <<>>, bullets |-> << <<"y">>, <<"z">> >>]>>

\* C15 as stated: extractSections yields one section per h2/h3 with
\* non-empty text, in document order, whose paragraphs are the non-empty p
\* texts and whose bullets are the li texts of the ul/ol siblings between the
\* heading and the next h2/h3 or the end; the example document yields the
\* sections A with paragraphs [x] and B with bullets [y, z].
C15_BulletsAreLiTexts ==
  /\ (sections.settled /\ mainContent.given) =>
       SectionsAre(LAMBDA nodes : NonEmpty(ParagraphTexts(nodes)),
                   LAMBDA nodes : ListItemTexts(nodes))
  /\ extractSections(ExampleDocument) = ExampleSections

\* C15, amended: as stated, with the bullets being the non-empty li texts
\* (an li whose text is empty or whitespace gives no bullet), all texts
\* whitespace-collapsed and trimmed, and no section at all without <main>.
C15_Segmentation ==
  /\ (sections.settled /\ mainContent.given) =>
       SectionsAre(LAMBDA nodes : NonEmpty(ParagraphTexts(nodes)),
                   LAMBDA nodes : NonEmpty(ListItemTexts(nodes)))
  /\ (sections.settled /\ ~mainContent.given) => sections.value = <<>>
  /\ extractSections(ExampleDocument) = ExampleSections

\* two sections out of four elements: the first has a paragraph and a list
\* with an empty item that gave no bullet
C15_Witness ==
  /\ sections.settled /\ Len(mainContent.children) = 4 /\ Len(sections.value) = 2
  /\ sections.value[1].paragraphs # <<>>
  /\ sections.value[1].bullets = << <<"z">> >>

\* the title with its whitespace collapsed, cut at the separators
TitleParts == splitOnSeparator(NormalizedText(title))
LeftPart == TitleParts[1]
RightPart == IF Len(TitleParts) > 1 THEN TitleParts[2] ELSE <<>>

\* "(" minus ")" in s[i..j]
Nesting(s, i, j) ==
  Cardinality({k \in i..j : s[k] = "("}) - Cardinality({k \in i..j : s[k] = ")"})

\* the positions of the "(" that the ")" at the end of s closes (none when s
\* does not end with ")" or that ")" closes nothing)
TrailingParenthetical(s) ==
  {a \in 1..Len(s) :
     /\ s[a] = "(" /\ s[Len(s)] = ")"
     /\ Nesting(s, a, Len(s)) = 0
     /\ \A j \in a..(Len(s) - 1) : Nesting(s, a, j) > 0}

ExampleTitle ==
  <<"Paracetamol", " ", "(", "Panadol", ",", " ", "Calpol", ")", " ", "-", " ",
    OtherBrandNames, " ", "Hedex">>

\* C16: parseBrandNames splits the title on " - Other brand names: ", strips
\* a trailing parenthetical from the left part to obtain the name, and returns
\* as brand list the duplicate-free union of the comma/slash-separated items
\* of the right part and of the parenthetical; the example title yields the
\* name Paracetamol and the brand set {Panadol, Calpol, Hedex}.
C16_ParseBrandNames ==
  /\ parsedTitle.returned =>
       LET opens == TrailingParenthetical(LeftPart)
           open == CHOOSE a \in opens : TRUE
           inside == IF opens = {} THEN <<>>
                     ELSE SubSeq(LeftPart, open + 1, Len(LeftPart) - 1)
       IN /\ parsedTitle.name = IF opens = {} THEN LeftPart
                                ELSE Trim(SubSeq(LeftPart, 1, open - 1))
          /\ Range(parsedTitle.brandNames)
               = Range(brandItems(RightPart)) \cup Range(brandItems(inside))
          /\ Cardinality(Range(parsedTitle.brandNames)) = Len(parsedTitle.brandNames)
  /\ parseBrandNames(ExampleTitle).name = <<"Paracetamol">>
  /\ Range(parseBrandNames(ExampleTitle).brandNames)
       = {<<"Panadol">>, <<"Calpol">>, <<"Hedex">>}

\* C17: artifact paths are task-unique: two tasks of a run with distinct
\* slugs whose artifacts were written have different paths derived by
\* toMedicineFileName, so no persist overwrites the artifact of a sibling.
C17_TaskUniqueArtifactPaths ==
  \A i, j \in Tasks :
    (gh[i].wroteArtifact /\ gh[j].wroteArtifact
       /\ tasksToRun[i].slug # tasksToRun[j].slug)
      => RelativeFilePath(tk[i].medicine) # RelativeFilePath(tk[j].medicine)

\* C18: slug is a unique key of the index in every reachable state of the
\* output store: after prepareOutputStore has loaded and backfilled it from
\* any metadata.json, no two entries of the index have the same slug.
C18_SlugUniqueKey ==
  \A j, k \in 1..Len(metadata) : j # k => metadata[j].slug # metadata[k].slug

\* the step in which task i upserts its entry
Upserts(i) == tk[i].pc = "writeArtifact" /\ tk'[i].pc = "writeMetadata"

\* C19: upsertMetadata for a slug the index has replaces that entry at its
\* position and leaves the number, the order and the content of all other
\* entries unchanged; for a new slug it appends exactly one entry at the end
\* and leaves every existing entry unchanged.
C19_UpsertFrame ==
  [][\A i \in Tasks :
       Upserts(i) =>
         LET slug == tasksToRun[i].slug
             at == EntriesFor(metadata, slug)
         IN IF at # {}
            THEN /\ Len(metadata') = Len(metadata)
                 /\ \A k \in 1..Len(metadata) :
                      IF k \in at THEN metadata'[k].slug = slug
                      ELSE metadata'[k] = metadata[k]
            ELSE /\ Len(metadata') = Len(metadata) + 1
                 /\ SubSeq(metadata', 1, Len(metadata)) = metadata
                 /\ metadata'[Len(metadata')].slug = slug]_vars

\* the first of two loaded entries was replaced where it was, with another
\* file path, and the second one is as it was loaded
C19_Witness ==
  /\ pc = "running" /\ Len(loaded) = 2 /\ Len(metadata) = 2
  /\ \E i \in Tasks : tk[i].pc = "writeMetadata" /\ tasksToRun[i].slug = loaded[1].slug
  /\ metadata[1] # loaded[1] /\ metadata[1].slug = loaded[1].slug
  /\ metadata[2] = loaded[2]

\* the persist of task i was rejected by one of its two writeFile calls
PersistFailed(i) == gh[i].failures \cap {"artifact", "metadata"} # {}

\* C20: retry covers extraction only: persistMedicine is invoked at most once
\* per task and only after an extraction attempt succeeded, and after a
\* persistence failure the task makes neither a further extraction attempt nor
\* a second persist: it goes to its finally and settles.
C20_PersistOutsideRetry ==
  \A i \in Tasks :
    /\ gh[i].persistCalls <= 1
    /\ gh[i].persistCalls = 1 =>
         (gh[i].succeededCount = 1 /\ tk[i].medicine # NoMedicine /\ tk[i].attempt >= 1)
    /\ tk[i].pc \in {"persistQueued", "writeArtifact", "writeMetadata"} =>
         gh[i].persistCalls = 1
    /\ PersistFailed(i) =>
         (tk[i].pc \in {"closing", "done"} /\ gh[i].persistCalls = 1
            /\ gh[i].failedCount = 1 /\ ~gh[i].persisted)

\* with retries left (first attempt of two allowed succeeded), the persist of
\* a task failed on metadata.json and the task went to its finally
C20_Witness ==
  /\ pc = "running" /\ retryAttempts = 2
  /\ \E i \in Tasks :
       /\ "metadata" \in gh[i].failures /\ tk[i].attempt = 1
       /\ tk[i].pc = "closing" /\ gh[i].persistCalls = 1

\* the attempts of task i are those its own outcomes give: one more than its
\* rejected attempts while an attempt runs or after one resolved, all of them
\* rejected once it gave up, which on errors pRetry retries it does only when
\* `budget` attempts were made
OwnOutcomesOnly(i, budget) ==
  /\ tk[i].pc = "scrape" => tk[i].attempt = gh[i].rejected + 1
  /\ gh[i].succeededCount = 1 =>
       (tk[i].attempt = gh[i].rejected + 1 /\ tk[i].pc # "scrape")
  /\ gh[i].failures \cap {"extract", "extractTypeError"} # {} =>
       (tk[i].attempt = gh[i].rejected /\ gh[i].succeededCount = 0)
  /\ "extract" \in gh[i].failures => gh[i].rejected = budget

\* C21 as stated: the retry budget is per task: each task's extraction is
\* attempted at most retryAttempts times, no attempt follows its first
\* successful attempt, and the number of its attempts depends only on the
\* outcomes of its own attempts, never on failures of sibling tasks.
C21_AtMostRetryAttempts ==
  \A i \in Tasks :
    /\ tk[i].attempt <= retryAttempts
    /\ gh[i].succeededCount <= 1
    /\ OwnOutcomesOnly(i, retryAttempts)

\* C21, amended: as stated, with a budget of max(1, retryAttempts) attempts
\* (RETRY_ATTEMPTS=0 still gives one attempt).
C21_PerTaskRetryBudget ==
  \A i \in Tasks :
    /\ tk[i].attempt <= Max(1, retryAttempts)
    /\ gh[i].succeededCount <= 1
    /\ OwnOutcomesOnly(i, Max(1, retryAttempts))

\* after a sibling has failed, a task is in its second attempt
C21_Witness ==
  /\ pc = "running" /\ retryAttempts = 2 /\ state.failed = 1
  /\ \E i, j \in Tasks :
       /\ i # j /\ "extract" \in gh[j].failures
       /\ tk[i].pc = "scrape" /\ tk[i].attempt = 2

C24_EventuallyReturns ==
  /\ (pc = "running") ~> (queue = <<>> /\ \A i \in Tasks : tk[i].pc = "done")
  /\ (pc = "running") ~> (writeQueue = <<>> /\ Writers = {})
  /\ (pc = "running") ~> (pc = "returned")

\* the tasks whose page is open
OpenPages == {i \in Tasks : tk[i].page = "open"}

\* the tasks whose page.close() rejected
CloseRejected == {i \in Tasks : "close" \in gh[i].failures}

HrefSegments(h) ==
  LET rest == IF Head(h) \in Origins THEN Tail(h) ELSE h
  IN SelectSeq(SubSeq(rest, 1, IndexOfAny(rest, {"?q", "#f"}, 1) - 1),
               LAMBDA t : t # "/")

\* an href with exactly one path segment after the medicines namespace
CatalogLink(h) ==
  /\ ~URLThrows(h)
  /\ Len(HrefSegments(h)) = 2
  /\ HrefSegments(h)[1] = "medicines"

SlugOf(h) == HrefSegments(h)[2]

LinksTo(slug) == {k \in 1..Len(hrefs) : CatalogLink(hrefs[k]) /\ SlugOf(hrefs[k]) = slug}

\* the position of the first href for a slug, 0 when there is none
FirstSeen(slug) ==
  IF LinksTo(slug) = {} THEN 0
  ELSE CHOOSE k \in LinksTo(slug) : \A l \in LinksTo(slug) : k <= l

CanonicalUrl(slug) == NHS_BASE_URL \o <<"/", "medicines", "/", slug, "/">>

\* C26: for every list of index-page hrefs scrapeIndexUrl returns tasks with
\* pairwise distinct slugs, in the order of the first href of each slug, each
\* with the canonical url https://www.nhs.uk/medicines/{slug}/ without query
\* or fragment, and with a task for exactly the slugs of the hrefs that have
\* one path segment after the medicines namespace.
C26_Discovery ==
  indexTasks.settled =>
    LET ts == indexTasks.value
    IN /\ ~indexTasks.rejected
       /\ \A j, k \in 1..Len(ts) : j # k => ts[j].slug # ts[k].slug
       /\ \A j, k \in 1..Len(ts) :
            j < k => FirstSeen(ts[j].slug) < FirstSeen(ts[k].slug)
       /\ \A k \in 1..Len(ts) : ts[k].url = CanonicalUrl(ts[k].slug)
       /\ {ts[k].slug : k \in 1..Len(ts)}
            = {SlugOf(hrefs[k]) : k \in {l \in 1..Len(hrefs) : CatalogLink(hrefs[l])}}

\* C27: an href that is no usable catalog link is dropped without an error:
\* discovery resolves, with a task for every well-formed href of the page
\* and none for the others.
C27_MalformedDropped ==
  indexTasks.settled =>
    /\ ~indexTasks.rejected
    /\ \A k \in 1..Len(hrefs) :
         CatalogLink(hrefs[k]) =>
           \E j \in 1..Len(indexTasks.value) :
             indexTasks.value[j].slug = SlugOf(hrefs[k])
    /\ \A j \in 1..Len(indexTasks.value) : LinksTo(indexTasks.value[j].slug) # {}

\* the details elements of the questions page
DetailsElements == SelectSeq(questionsPage.children, LAMBDA node : node.tag = "details")

\* the pair of a details element: its summary, and its p texts followed by
\* its li texts, the empty ones left out, one per line
DetailsPair(detail) ==
  [question |-> NormalizedText(detail.text),
   answer |-> joinLines(NonEmpty([k \in 1..Len(detail.paragraphs) |->
                                    NormalizedText(detail.paragraphs[k])])
                        \o NonEmpty([k \in 1..Len(detail.items) |->
                                       NormalizedText(detail.items[k])]))]

Answered(pair) == pair.question # <<>> /\ pair.answer # <<>>

\* the pairs of the details elements, those with an empty side dropped
DetailsPairs ==
  SelectSeq([k \in 1..Len(DetailsElements) |-> DetailsPair(DetailsElements[k])],
            Answered)

QuestionHeadings ==
  {k \in 1..Len(questionsPage.children) : questionsPage.children[k].tag \in {"h2", "h3"}}

RECURSIVE AnswerTexts(_)
\* the p texts and li texts of `nodes`, in document order
AnswerTexts(nodes) ==
  IF nodes = <<>> THEN <<>>
  ELSE (CASE Head(nodes).tag = "p" -> <<NormalizedText(Head(nodes).text)>>
          [] Head(nodes).tag \in {"ul", "ol"} ->
               [k \in 1..Len(Head(nodes).items) |-> NormalizedText(Head(nodes).items[k])]
          [] OTHER -> <<>>) \o AnswerTexts(Tail(nodes))

\* the pair of the heading at position k
HeadingPair(k) ==
  LET later == {j \in QuestionHeadings : j > k}
      stop == IF later = {} THEN Len(questionsPage.children) + 1
              ELSE CHOOSE j \in later : \A m \in later : j <= m
  IN [question |-> NormalizedText(questionsPage.children[k].text),
      answer |-> joinLines(NonEmpty(AnswerTexts(
                   SubSeq(questionsPage.children, k + 1, stop - 1))))]

BeginsWithMoreIn(pair) == pair.question # <<>> /\ Head(pair.question) \in {"More in", "more in"}

\* the heading-delimited pairs, in document order, without those with an
\* empty side and those whose heading begins with "more in"
HeadingPairs ==
  LET kept == {k \in QuestionHeadings :
                 Answered(HeadingPair(k)) /\ ~BeginsWithMoreIn(HeadingPair(k))}
  IN [n \in 1..Cardinality(kept) |->
        HeadingPair(CHOOSE k \in kept : Cardinality({m \in kept : m <= k}) = n)]

\* C28 as stated: on a questions page with details elements the result is
\* built from them only, without the pairs with an empty question or answer;
\* the heading fallback (which also drops the headings that begin with
\* "more in") is used if and only if the page has no details element.
C28_FallbackIffNoDetails ==
  (questions.settled /\ questionsPage.given) =>
    /\ DetailsElements # <<>> => questions.value = DetailsPairs
    /\ DetailsElements = <<>> => questions.value = HeadingPairs

\* C28, amended: the result is built from the details elements only when one
\* of them has a non-empty question and a non-empty answer; the heading
\* fallback (which also drops the headings that begin with "more in") is used
\* if and only if no details element gives such a pair, in particular when
\* the page has none; without <main> there is no pair.
C28_FallbackIffNoPair ==
  /\ (questions.settled /\ questionsPage.given) =>
       /\ DetailsPairs # <<>> => questions.value = DetailsPairs
       /\ DetailsPairs = <<>> => questions.value = HeadingPairs
  /\ (questions.settled /\ ~questionsPage.given) => questions.value = <<>>

\* a page whose only details element has no summary, followed by a heading
\* with a paragraph: the result is the pair of the heading
C28_Witness ==
  /\ questions.settled
  /\ DetailsElements # <<>> /\ DetailsPairs = <<>>
  /\ Len(questions.value) = 1
  /\ questions.value[1].question = <<"A">>

\* C29: when run returns, every selected task has been counted in exactly one
\* of skipped, succeeded or failed: every queued task once in succeeded or
\* failed, succeeded + failed = total and skipped + total = the number of
\* selected tasks, whatever extraction and persistence did.
C29_SummaryAccounting ==
  pc = "returned" =>
    /\ \A i \in Tasks : gh[i].succeededCount + gh[i].failedCount = 1
    /\ summary.succeeded + summary.failed = summary.total
    /\ summary.skipped + summary.total = Len(selected)
====
